---- MODULE Spec2Model ----
(***************************************************************************)
(* Model of icl.c: the inter-core latency measurement.  The main context   *)
(* (initiator) walks all pairs i < j of the enumerated CPUs; for each pair *)
(* it spawns a responder thread (thread_func), pins itself, optionally     *)
(* preheats, runs nsamples hand-off samples over the two cells seq1 and    *)
(* seq2, joins the responder and stores rtt / 2 / 100 into both entries of *)
(* the flat matrix data.  One action is one access to shared memory (or    *)
(* one system call) together with the private computation around it.       *)
(***************************************************************************)
EXTENDS Integers, Sequences, FiniteSets, TLC

(* ----------------------------- bounds ---------------------------------- *)
\* CPU identifiers of the affinity mask range over 0..CpuSetSize-1
CpuSetSize == 3
\* -s values explored: -1 .. MaxSamples
MaxSamples == 2
\* elapsed times injected for a sample: 200, 260, .., 200 + 60 * MaxTick ns
MaxTick == 1
\* a preheat loop polls the clock at most MaxPolls times before 200 ms passed
MaxPolls == 2

(* ------------------------ program constants ---------------------------- *)
\* hand-off steps of one sample, the inner for (n = 0; n < 100; ++n) loops
NSteps == 100

SampleCounts == {-1} \cup (0..MaxSamples)
ElapsedVals == {200 + 60 * t : t \in 0..MaxTick}
CpuIds == 0..(CpuSetSize - 1)

(* --------------------------- pure helpers ------------------------------ *)
\* C integer division of long long: truncates toward zero
\* (mutant first: rounds toward minus infinity)
CDivFloor(a, b) == a \div b
CDiv(a, b) ==
  IF a >= 0 THEN a \div b ELSE -((-a) \div b)

\* rtt / 2 / 100 of line 252
PerHop(r) == CDiv(CDiv(r, 2), 100)

\* rtt / 2 / 100 of line 253 (mutant first: the second division forgotten)
PerHopJIHalf(r) == CDiv(r, 2)
PerHopJI(r) == CDiv(CDiv(r, 2), 100)

\* if (rtt == -1 || current_rtt < rtt) rtt = current_rtt;   (mutants first)
RttUpdateNoSentinel(r, cur) == IF cur < r THEN cur ELSE r
RttUpdateMax(r, cur) == IF r = -1 \/ cur > r THEN cur ELSE r
RttUpdate(r, cur) == IF r = -1 \/ cur < r THEN cur ELSE r

\* index of entry (a, b) in the flat calloc'ed array data (mutant first)
IdxDiag(a, b, nc) == a * nc + a
Idx(a, b, nc) == a * nc + b

\* first j of the inner loop: for (int j = i + 1; ...) (mutant first)
JStartSelf(a) == a
JStart(a) == a + 1

\* the enumeration loop of lines 159-165: the set bits in increasing order
EnumerateCpus(set) ==
  CHOOSE f \in [0..(Cardinality(set) - 1) -> set] :
    \A a, b \in 0..(Cardinality(set) - 1) : a < b => f[a] < f[b]

\* sched_setaffinity() == -1 makes pinThread call exit(1), which ends the
\* process with all its threads (mutant first: the error is ignored)
PinNeverExits(ret) == FALSE
PinExits(ret) == ret = -1

RECURSIVE SeqMin(_)
SeqMin(s) ==
  IF Len(s) = 1 THEN s[1]
  ELSE LET r == SeqMin(Tail(s)) IN IF s[1] < r THEN s[1] ELSE r

NoFrame == <<>>
NoOutput == <<>>

VARIABLES
  cpus,        \* int *cpus: position -> CPU id
  ncpus,
  nsamples, use_write, preheat,      \* options of main
  data,        \* long long *data, flat ncpus * ncpus
  i, j,        \* loop variables of the pair loops
  frame,       \* the pair whose loop body (seq1, seq2, args) is in scope
  seq1, seq2,  \* the two hand-off cells
  rtt,         \* running minimum of the pair
  mpc, m, n,   \* main context: position, sample index, step index
  mpolls,      \* clock polls done by main's preheat loop
  mainAff,     \* affinity mask of the main context
  thr,         \* responder threads: pair -> [pc, m, n, polls, aff, args]
  status,      \* "running", "exit0" (main returned 0), "exit1" (exit(1))
  output,      \* <<the matrix as printed>>, NoOutput before
  pinFailed,   \* history: some sched_setaffinity call returned -1
  elapsedSeq,  \* history: elapsed times of the samples of the current pair
  rttHist,     \* history: rtt after each sample of the current pair
  measured     \* history: pairs whose result has been stored, in order

vars == <<cpus, ncpus, nsamples, use_write, preheat, data, i, j, frame, seq1,
          seq2, rtt, mpc, m, n, mpolls, mainAff, thr, status, output,
          pinFailed, elapsedSeq, rttHist, measured>>

Init ==
  /\ \E set \in SUBSET CpuIds :
       /\ ncpus = Cardinality(set)
       /\ cpus = EnumerateCpus(set)
       /\ mainAff = set
  /\ nsamples \in SampleCounts
  /\ use_write \in BOOLEAN
  /\ preheat \in BOOLEAN
  /\ data = [k \in 0..(ncpus * ncpus - 1) |-> 0]
  /\ i = 0 /\ j = 0
  /\ frame = NoFrame
  /\ seq1 = -1 /\ seq2 = -1
  /\ rtt = -1
  /\ mpc = "for_i" /\ m = 0 /\ n = 0 /\ mpolls = 0
  /\ thr = <<>>
  /\ status = "running"
  /\ output = NoOutput
  /\ pinFailed = FALSE
  /\ elapsedSeq = <<>> /\ rttHist = <<>>
  /\ measured = <<>>


(* ------------------------- main context -------------------------------- *)
Running == status = "running"

\* what the main context leaves alone in every step
MainFixed == UNCHANGED <<cpus, ncpus, nsamples, use_write, preheat>>

\* the pair of the loop body in execution, and its responder
CurPair == <<i, j>>

\* line 169: for (int i = 0; i < ncpus; ++i)
MainForI ==
  /\ Running /\ mpc = "for_i"
  /\ IF i < ncpus
       THEN j' = JStart(i) /\ mpc' = "for_j"
       ELSE j' = j /\ mpc' = "print"
  /\ MainFixed
  /\ UNCHANGED <<data, i, frame, seq1, seq2, rtt, m, n, mpolls, mainAff, thr,
                 status, output, pinFailed, elapsedSeq, rttHist, measured>>

\* line 170: for (int j = i + 1; j < ncpus; ++j); the body's locals seq1 and
\* seq2 come into scope initialised to -1 (lines 172-173)
MainForJ ==
  /\ Running /\ mpc = "for_j"
  /\ IF j < ncpus
       THEN /\ frame' = CurPair
            /\ seq1' = -1 /\ seq2' = -1
            /\ mpc' = "create"
            /\ i' = i
       ELSE /\ i' = i + 1
            /\ mpc' = "for_i"
            /\ UNCHANGED <<frame, seq1, seq2>>
  /\ MainFixed
  /\ UNCHANGED <<data, j, rtt, m, n, mpolls, mainAff, thr, status, output,
                 pinFailed, elapsedSeq, rttHist, measured>>

\* line 177: the position in cpus handed to the responder of pair (a, b)
\* (mutant first: the initiator's position)
RespPosSecond(a, b) == b
RespPos(a, b) == a

\* the thread as pthread_create leaves it: at the entry of thread_func, with
\* the creator's affinity mask, args pointing into the creator's frame
NewThread ==
  [pc |-> "start", m |-> 0, n |-> 0, polls |-> 0, aff |-> mainAff,
   args |-> [cpu |-> cpus[RespPos(i, j)], nsamples |-> nsamples, use_write |-> use_write,
             preheat |-> preheat, seq |-> frame]]

\* lines 175-182: args, pthread_create, rtt = -1
MainCreate ==
  /\ Running /\ mpc = "create"
  /\ thr' = (CurPair :> NewThread) @@ thr
  /\ rtt' = -1
  /\ elapsedSeq' = <<>> /\ rttHist' = <<>>
  /\ mpc' = "pin"
  /\ MainFixed
  /\ UNCHANGED <<data, i, j, frame, seq1, seq2, m, n, mpolls, mainAff, status,
                 output, pinFailed, measured>>

\* line 184: pinThread(cpus[j]); ret is what sched_setaffinity returns
MainPin ==
  /\ Running /\ mpc = "pin"
  /\ \E ret \in {0, -1} :
       /\ pinFailed' = (pinFailed \/ ret = -1)
       /\ mainAff' = IF ret = 0 THEN {cpus[j]} ELSE mainAff
       /\ IF PinExits(ret)
            THEN status' = "exit1" /\ UNCHANGED <<mpc, m, mpolls>>
            ELSE /\ status' = status
                 /\ mpc' = IF preheat THEN "preheat" ELSE "for_m"
                 /\ m' = 0 /\ mpolls' = 0
  /\ MainFixed
  /\ UNCHANGED <<data, i, j, frame, seq1, seq2, rtt, n, thr, output,
                 elapsedSeq, rttHist, measured>>

\* lines 185-196: one poll of the clock; the poll that sees 200 ms elapsed
\* leaves the loop, which happens at the latest at poll MaxPolls
MainPreheat ==
  /\ Running /\ mpc = "preheat"
  /\ \E expired \in BOOLEAN :
       /\ (mpolls + 1 >= MaxPolls) => expired
       /\ IF expired
            THEN mpc' = "for_m" /\ mpolls' = 0
            ELSE mpc' = mpc /\ mpolls' = mpolls + 1
  /\ MainFixed
  /\ UNCHANGED <<data, i, j, frame, seq1, seq2, rtt, m, n, mainAff, thr,
                 status, output, pinFailed, elapsedSeq, rttHist, measured>>

\* line 198: for (int m = 0; m < nsamples; ++m)
MainForM ==
  /\ Running /\ mpc = "for_m"
  /\ mpc' = IF m < nsamples THEN "reset1" ELSE "join"
  /\ MainFixed
  /\ UNCHANGED <<data, i, j, frame, seq1, seq2, rtt, m, n, mpolls, mainAff,
                 thr, status, output, pinFailed, elapsedSeq, rttHist, measured>>

\* the value the stores of lines 199-200 leave in a cell that held old
\* (mutant first: the reset is left out)
ResetKeeps(old) == old
ResetValue(old) == -1

\* line 199: atomic_store(&seq1, -1)
MainReset1 ==
  /\ Running /\ mpc = "reset1"
  /\ seq1' = ResetValue(seq1)
  /\ mpc' = "reset2"
  /\ MainFixed
  /\ UNCHANGED <<data, i, j, frame, seq2, rtt, m, n, mpolls, mainAff, thr,
                 status, output, pinFailed, elapsedSeq, rttHist, measured>>

\* line 200: atomic_store(&seq2, -1), then the branch of line 201
MainReset2 ==
  /\ Running /\ mpc = "reset2"
  /\ seq2' = ResetValue(seq2)
  /\ mpc' = IF ~use_write THEN "r_ts1" ELSE "w_store0"
  /\ MainFixed
  /\ UNCHANGED <<data, i, j, frame, seq1, rtt, m, n, mpolls, mainAff, thr,
                 status, output, pinFailed, elapsedSeq, rttHist, measured>>


\* the initiator is between recording ts1 and recording ts2
InTimedWindow ==
  mpc \in {"r_store", "r_spin", "r_ts2", "w_cas", "w_last", "w_ts2"}

\* lines 202, 227: clock_gettime(CLOCK_MONOTONIC, &ts1), then n = 0
MainTs1 ==
  /\ Running /\ mpc \in {"r_ts1", "w_ts1"}
  /\ n' = 0
  /\ mpc' = IF mpc = "r_ts1" THEN "r_store" ELSE "w_cas"
  /\ MainFixed
  /\ UNCHANGED <<data, i, j, frame, seq1, seq2, rtt, m, mpolls, mainAff, thr,
                 status, output, pinFailed, elapsedSeq, rttHist, measured>>

\* lines 204-205: atomic_store_explicit(&seq1, n, release)
MainFlagStore ==
  /\ Running /\ mpc = "r_store"
  /\ seq1' = n
  /\ mpc' = "r_spin"
  /\ MainFixed
  /\ UNCHANGED <<data, i, j, frame, seq2, rtt, m, n, mpolls, mainAff, thr,
                 status, output, pinFailed, elapsedSeq, rttHist, measured>>

\* the value that ends the initiator's spin on seq2 at step k (mutants first)
FlagAckAny(v, k) == TRUE
FlagAckNext(v, k) == v = k + 1
FlagAck(v, k) == v = k

\* lines 206-209: one load of seq2; the loop is left when it equals n, and
\* then ++n and the test n < 100 of line 203
MainFlagSpin ==
  /\ Running /\ mpc = "r_spin"
  /\ FlagAck(seq2, n)
  /\ n' = n + 1
  /\ mpc' = IF n + 1 < NSteps THEN "r_store" ELSE "r_ts2"
  /\ MainFixed
  /\ UNCHANGED <<data, i, j, frame, seq1, seq2, rtt, m, mpolls, mainAff, thr,
                 status, output, pinFailed, elapsedSeq, rttHist, measured>>

\* lines 211-217 and 240-246: clock_gettime(&ts2); current_rtt is the
\* elapsed time e of the sample; the minimum is retained; ++m
MainTs2 ==
  /\ Running /\ mpc \in {"r_ts2", "w_ts2"}
  /\ \E e \in ElapsedVals :
       /\ rtt' = RttUpdate(rtt, e)
       /\ elapsedSeq' = Append(elapsedSeq, e)
       /\ rttHist' = Append(rttHist, rtt')
  /\ m' = m + 1
  /\ mpc' = "for_m"
  /\ MainFixed
  /\ UNCHANGED <<data, i, j, frame, seq1, seq2, n, mpolls, mainAff, thr,
                 status, output, pinFailed, measured>>

\* lines 220-221: atomic_store_explicit(&seq2, 0, release)
MainBarrierOpen ==
  /\ Running /\ mpc = "w_store0"
  /\ seq2' = 0
  /\ mpc' = "w_wait"
  /\ MainFixed
  /\ UNCHANGED <<data, i, j, frame, seq1, rtt, m, n, mpolls, mainAff, thr,
                 status, output, pinFailed, elapsedSeq, rttHist, measured>>

\* the value that ends the initiator's wait on the barrier (mutant first)
BarrierPassedAny(v) == TRUE
BarrierPassed(v) == v # 0

\* lines 222-224: one load of seq2; the loop is left when it is not 0
MainBarrierWait ==
  /\ Running /\ mpc = "w_wait"
  /\ BarrierPassed(seq2)
  /\ mpc' = "w_close"
  /\ MainFixed
  /\ UNCHANGED <<data, i, j, frame, seq1, seq2, rtt, m, n, mpolls, mainAff,
                 thr, status, output, pinFailed, elapsedSeq, rttHist, measured>>

\* lines 225-226: atomic_store_explicit(&seq2, -1, release)
MainBarrierClose ==
  /\ Running /\ mpc = "w_close"
  /\ seq2' = -1
  /\ mpc' = "w_ts1"
  /\ MainFixed
  /\ UNCHANGED <<data, i, j, frame, seq1, rtt, m, n, mpolls, mainAff, thr,
                 status, output, pinFailed, elapsedSeq, rttHist, measured>>

\* line 231: cmp = 2 * n - 1, the value the initiator expects in seq1
MainCmp(k) == 2 * k - 1

\* lines 230-234: cmp = 2 * n - 1; atomic_compare_exchange_strong(&seq1,
\* &cmp, cmp + 1).  A failed exchange leaves seq1 alone and loads it into the
\* private cmp, which the next round overwrites: the step changes nothing.
MainCas ==
  /\ Running /\ mpc = "w_cas"
  /\ seq1 = MainCmp(n)
  /\ seq1' = MainCmp(n) + 1
  /\ n' = n + 1
  /\ mpc' = IF n + 1 < NSteps THEN "w_cas" ELSE "w_last"
  /\ MainFixed
  /\ UNCHANGED <<data, i, j, frame, seq2, rtt, m, mpolls, mainAff, thr,
                 status, output, pinFailed, elapsedSeq, rttHist, measured>>

\* lines 237-239: one load of seq1; the loop is left when it equals 199
MainCasLast ==
  /\ Running /\ mpc = "w_last"
  /\ seq1 = 199
  /\ mpc' = "w_ts2"
  /\ MainFixed
  /\ UNCHANGED <<data, i, j, frame, seq1, seq2, rtt, m, n, mpolls, mainAff,
                 thr, status, output, pinFailed, elapsedSeq, rttHist, measured>>

\* pthread_join returns once the thread has returned from thread_func
\* (mutant first: a join that does not wait)
JoinReturnsEarly(t) == TRUE
JoinReturns(t) == t.pc = "done"

\* line 250: pthread_join(thread, NULL)
MainJoin ==
  /\ Running /\ mpc = "join"
  /\ JoinReturns(thr[CurPair])
  /\ thr' = [thr EXCEPT ![CurPair].pc =
               IF @ = "done" THEN "joined" ELSE @]
  /\ mpc' = "store_ij"
  /\ MainFixed
  /\ UNCHANGED <<data, i, j, frame, seq1, seq2, rtt, m, n, mpolls, mainAff,
                 status, output, pinFailed, elapsedSeq, rttHist, measured>>

\* line 252: data[i * ncpus + j] = rtt / 2 / 100
MainStoreIJ ==
  /\ Running /\ mpc = "store_ij"
  /\ data' = [data EXCEPT ![Idx(i, j, ncpus)] = PerHop(rtt)]
  /\ mpc' = "store_ji"
  /\ MainFixed
  /\ UNCHANGED <<i, j, frame, seq1, seq2, rtt, m, n, mpolls, mainAff, thr,
                 status, output, pinFailed, elapsedSeq, rttHist, measured>>

\* line 253: data[j * ncpus + i] = rtt / 2 / 100; the body ends, its locals
\* go out of scope, ++j
MainStoreJI ==
  /\ Running /\ mpc = "store_ji"
  /\ data' = [data EXCEPT ![Idx(j, i, ncpus)] = PerHopJI(rtt)]
  /\ measured' = Append(measured, CurPair)
  /\ frame' = NoFrame
  /\ j' = j + 1
  /\ mpc' = "for_j"
  /\ MainFixed
  /\ UNCHANGED <<i, seq1, seq2, rtt, m, n, mpolls, mainAff, thr, status,
                 output, pinFailed, elapsedSeq, rttHist>>

\* lines 257-308: the matrix is printed (in enumeration order, smt == 0)
MainPrint ==
  /\ Running /\ mpc = "print"
  /\ output' = <<[a \in 0..(ncpus - 1) |->
                   [b \in 0..(ncpus - 1) |-> data[Idx(a, b, ncpus)]]]>>
  /\ mpc' = "return"
  /\ MainFixed
  /\ UNCHANGED <<data, i, j, frame, seq1, seq2, rtt, m, n, mpolls, mainAff,
                 thr, status, pinFailed, elapsedSeq, rttHist, measured>>

\* line 313: return 0
MainReturn ==
  /\ Running /\ mpc = "return"
  /\ status' = "exit0"
  /\ MainFixed
  /\ UNCHANGED <<data, i, j, frame, seq1, seq2, rtt, mpc, m, n, mpolls,
                 mainAff, thr, output, pinFailed, elapsedSeq, rttHist,
                 measured>>


(* ------------------------ responder context ---------------------------- *)
\* values an int cell of the protocols can hold
CellVals == (-1)..(2 * NSteps - 1)

\* args->seq1 and args->seq2 point to the locals of the loop body that
\* created the thread; they are valid while that body is in scope
CellsValid(t) == thr[t].args.seq = frame

\* a load through args->seqN: the cell, or anything if the pointer dangles
Loaded(t, cell) == IF CellsValid(t) THEN {cell} ELSE CellVals

\* a store of v through args->seqN: the cell holds v afterwards; through a
\* dangling pointer the store may also miss the cell
Stored(t, cell, v) == IF CellsValid(t) THEN {v} ELSE {v, cell}

ThrFixed ==
  UNCHANGED <<cpus, ncpus, nsamples, use_write, preheat, data, i, j, frame,
              rtt, mpc, m, n, mpolls, mainAff, output, elapsedSeq, rttHist,
              measured>>

\* line 56: pinThread(args->cpu)
ThrPin(t) ==
  /\ Running /\ thr[t].pc = "start"
  /\ \E ret \in {0, -1} :
       /\ pinFailed' = (pinFailed \/ ret = -1)
       /\ IF PinExits(ret)
            THEN status' = "exit1" /\ thr' = thr
            ELSE /\ status' = status
                 /\ thr' = [thr EXCEPT
                      ![t].aff = IF ret = 0 THEN {thr[t].args.cpu} ELSE @,
                      ![t].pc = IF thr[t].args.preheat
                                  THEN "preheat" ELSE "for_m"]
  /\ ThrFixed
  /\ UNCHANGED <<seq1, seq2>>

\* lines 58-68: one poll of the clock by the responder's preheat loop
ThrPreheat(t) ==
  /\ Running /\ thr[t].pc = "preheat"
  /\ \E expired \in BOOLEAN :
       /\ (thr[t].polls + 1 >= MaxPolls) => expired
       /\ thr' = IF expired
                   THEN [thr EXCEPT ![t].pc = "for_m", ![t].polls = 0]
                   ELSE [thr EXCEPT ![t].polls = @ + 1]
  /\ ThrFixed
  /\ UNCHANGED <<seq1, seq2, status, pinFailed>>

\* lines 70-71 and 93: for (int m = 0; m < args->nsamples; ++m), the branch
\* on args->use_write, or the return when the loop is over
ThrForM(t) ==
  /\ Running /\ thr[t].pc = "for_m"
  /\ thr' = [thr EXCEPT
       ![t].pc = IF thr[t].m < thr[t].args.nsamples
                   THEN (IF ~thr[t].args.use_write THEN "r_spin" ELSE "w_wait")
                   ELSE "done",
       ![t].n = 0]
  /\ ThrFixed
  /\ UNCHANGED <<seq1, seq2, status, pinFailed>>

\* the value that ends the responder's spin on seq1 at step k (mutant first)
FlagReqAny(v, k) == TRUE
FlagReq(v, k) == v = k

\* lines 73-75: one load of *args->seq1; the loop is left when it equals n
ThrFlagSpin(t) ==
  /\ Running /\ thr[t].pc = "r_spin"
  /\ \E v \in Loaded(t, seq1) : FlagReq(v, thr[t].n)
  /\ thr' = [thr EXCEPT ![t].pc = "r_store"]
  /\ ThrFixed
  /\ UNCHANGED <<seq1, seq2, status, pinFailed>>

\* the position after step k of a sample's 100 steps: the next step, or ++m
\* and back to the test of line 70
ThrAfterStep(t, again) ==
  IF thr[t].n + 1 < NSteps
    THEN [thr EXCEPT ![t].n = @ + 1, ![t].pc = again]
    ELSE [thr EXCEPT ![t].n = @ + 1, ![t].m = @ + 1, ![t].pc = "for_m"]

\* lines 76-77: atomic_store_explicit(args->seq2, n, release); ++n
ThrFlagStore(t) ==
  /\ Running /\ thr[t].pc = "r_store"
  /\ seq2' \in Stored(t, seq2, thr[t].n)
  /\ thr' = ThrAfterStep(t, "r_spin")
  /\ ThrFixed
  /\ UNCHANGED <<seq1, status, pinFailed>>

\* lines 80-81: one load of *args->seq2; the loop is left when it equals 0
ThrBarrierWait(t) ==
  /\ Running /\ thr[t].pc = "w_wait"
  /\ \E v \in Loaded(t, seq2) : v = 0
  /\ thr' = [thr EXCEPT ![t].pc = "w_store1"]
  /\ ThrFixed
  /\ UNCHANGED <<seq1, seq2, status, pinFailed>>

\* lines 82-83: atomic_store_explicit(args->seq2, 1, release)
ThrBarrierStore(t) ==
  /\ Running /\ thr[t].pc = "w_store1"
  /\ seq2' \in Stored(t, seq2, 1)
  /\ thr' = [thr EXCEPT ![t].pc = "w_cas", ![t].n = 0]
  /\ ThrFixed
  /\ UNCHANGED <<seq1, status, pinFailed>>

\* line 87: cmp = 2 * n, the value the responder expects in seq1 (mutant
\* first: the initiator's expected value)
ThrCmpOdd(k) == 2 * k - 1
ThrCmp(k) == 2 * k

\* lines 86-89: cmp = 2 * n; atomic_compare_exchange_strong(args->seq1,
\* &cmp, cmp + 1); a failed exchange changes nothing but the private cmp
ThrCas(t) ==
  /\ Running /\ thr[t].pc = "w_cas"
  /\ \E v \in Loaded(t, seq1) : v = ThrCmp(thr[t].n)
  /\ seq1' \in Stored(t, seq1, ThrCmp(thr[t].n) + 1)
  /\ thr' = ThrAfterStep(t, "w_cas")
  /\ ThrFixed
  /\ UNCHANGED <<seq2, status, pinFailed>>

(* --------------------------- specification ----------------------------- *)
MainStep ==
  \/ MainForI \/ MainForJ \/ MainCreate \/ MainPin \/ MainPreheat
  \/ MainForM \/ MainReset1 \/ MainReset2 \/ MainTs1 \/ MainFlagStore
  \/ MainFlagSpin \/ MainTs2 \/ MainBarrierOpen \/ MainBarrierWait
  \/ MainBarrierClose \/ MainCas \/ MainCasLast \/ MainJoin \/ MainStoreIJ
  \/ MainStoreJI \/ MainPrint \/ MainReturn

ThrStep(t) ==
  \/ ThrPin(t) \/ ThrPreheat(t) \/ ThrForM(t) \/ ThrFlagSpin(t)
  \/ ThrFlagStore(t) \/ ThrBarrierWait(t) \/ ThrBarrierStore(t) \/ ThrCas(t)

Next ==
  \/ MainStep
  \/ \E t \in DOMAIN thr : ThrStep(t)

Spec == Init /\ [][Next]_vars

\* both contexts sit on cores of their own that keep executing
FairSpec ==
  /\ Spec
  /\ WF_vars(MainStep)
  /\ WF_vars(\E t \in DOMAIN thr : ThrStep(t))


(* ----------------------------- properties ------------------------------ *)
Positions == 0..(ncpus - 1)
Entry(a, b) == data[Idx(a, b, ncpus)]
BuildDone == mpc \in {"print", "return"}
LastMeasured == measured[Len(measured)]
\* the body of a pair has been left and no later pair has been started
PairJustStored == measured # <<>> /\ mpc \in {"for_j", "for_i", "print", "return"}
Existing == {t \in DOMAIN thr : thr[t].pc # "joined"}

\* C1: whenever main is not between the two stores of lines 252-253, and in
\* particular once the build is complete, the matrix is symmetric; right after
\* a pair is stored both its entries hold the value derived from the pair's
\* single measurement.
C1_Symmetric ==
  /\ mpc # "store_ji" =>
       \A a, b \in Positions : a # b => Entry(a, b) = Entry(b, a)
  /\ PairJustStored =>
       /\ Entry(LastMeasured[1], LastMeasured[2]) = CDiv(CDiv(rtt, 2), 100)
       /\ Entry(LastMeasured[2], LastMeasured[1]) = CDiv(CDiv(rtt, 2), 100)

C1_Witness ==
  /\ BuildDone /\ ncpus = 3 /\ rtt = 260
  /\ Entry(0, 1) = 1 /\ Entry(1, 0) = 1 /\ Entry(1, 2) = 1 /\ Entry(2, 1) = 1

\* C2: no matrix entry is ever negative, the printed matrix holds no -1, and
\* for nsamples >= 1 the running minimum is a real sample (not the sentinel
\* -1) from the join on, giving a non-negative per-hop value.
C2_NoSentinel ==
  /\ \A k \in DOMAIN data : data[k] >= 0
  /\ output # NoOutput =>
       \A a, b \in Positions : output[1][a][b] >= 0
  /\ (nsamples >= 1 /\ mpc \in {"join", "store_ij", "store_ji"}) =>
       /\ rtt # -1 /\ rtt >= 0
       /\ CDiv(CDiv(rtt, 2), 100) >= 0

C2_Witness ==
  /\ mpc = "store_ji" /\ nsamples >= 1 /\ rtt = 200 /\ Entry(i, j) = 1

\* C3: after each sample m the retained rtt is the minimum of the elapsed
\* times e_0..e_m injected so far, and for nsamples >= 1 the value stored for
\* the pair (both entries) is min(e_0..e_{nsamples-1}) divided by 200, in
\* either protocol.
C3_MinOver200 ==
  /\ elapsedSeq # <<>> =>
       /\ rtt = SeqMin(elapsedSeq)
       /\ Len(elapsedSeq) = m
  /\ (PairJustStored /\ nsamples >= 1) =>
       /\ Len(elapsedSeq) = nsamples
       /\ Entry(LastMeasured[1], LastMeasured[2]) = SeqMin(elapsedSeq) \div 200
       /\ Entry(LastMeasured[2], LastMeasured[1]) = SeqMin(elapsedSeq) \div 200

C3_Witness ==
  /\ PairJustStored /\ use_write
  /\ elapsedSeq = <<260, 200>> /\ rtt = 200
  /\ Entry(LastMeasured[1], LastMeasured[2]) = 1

\* C4: along the samples of a pair the reported latency never increases: the
\* value reported after k + 1 samples is at most the value reported after k.
C4_Monotone ==
  \A k \in 1..(Len(rttHist) - 1) :
    /\ rttHist[k + 1] <= rttHist[k]
    /\ CDiv(CDiv(rttHist[k + 1], 2), 100) <= CDiv(CDiv(rttHist[k], 2), 100)

C4_Witness ==
  /\ Len(rttHist) = 2 /\ elapsedSeq = <<260, 200>>
  /\ rttHist[2] < rttHist[1]

\* C5: only pairs i < j get a responder and a result, none twice; the
\* diagonal stays 0 in every state; when the build is complete exactly
\* n * (n - 1) / 2 pairs have been measured.
C5_PairCount ==
  /\ \A a \in Positions : Entry(a, a) = 0
  /\ \A t \in DOMAIN thr : t[1] < t[2]
  /\ \A k \in 1..Len(measured) :
       /\ measured[k][1] < measured[k][2]
       /\ \A l \in 1..Len(measured) : measured[k] = measured[l] => k = l
  /\ Len(measured) <= Cardinality(DOMAIN thr)
  /\ BuildDone =>
       /\ Len(measured) = (ncpus * (ncpus - 1)) \div 2
       /\ Cardinality(DOMAIN thr) = (ncpus * (ncpus - 1)) \div 2

C5_Witness ==
  /\ status = "exit0" /\ ncpus = 3 /\ Len(measured) = 3
  /\ Entry(1, 2) = 1


\* C6: with both contexts scheduled fairly and pinning succeeding, the run
\* over all pairs terminates (main returns 0), and then every responder has
\* run all its nsamples rounds and has been joined, every pair has its
\* nsamples samples; the run never gets stuck in a spin.
C6_Terminates ==
  /\ <>(status = "exit0" \/ pinFailed)
  /\ [](status = "exit0" =>
         /\ \A t \in DOMAIN thr :
              /\ thr[t].pc = "joined"
              /\ thr[t].m = IF nsamples > 0 THEN nsamples ELSE 0
         /\ Len(measured) = (ncpus * (ncpus - 1)) \div 2
         /\ (nsamples >= 1 /\ ncpus >= 2) => Len(elapsedSeq) = nsamples)

C6_Witness ==
  /\ status = "exit0" /\ ~pinFailed
  /\ ncpus = 3 /\ nsamples = 2 /\ Len(measured) = 3
  /\ thr[<<1, 2>>].m = 2

\* the responder of the current pair has been created and has not taken a
\* step since
Starved ==
  /\ frame # NoFrame /\ CurPair \in DOMAIN thr
  /\ thr[CurPair].pc = "start"

\* C7: while the responder has taken no step and nsamples >= 1, the
\* initiator is at or before the first spin of the first sample (on seq2 for
\* the value 0 in the flag exchange, on seq2 to leave 0 in the barrier of
\* the compare-exchange protocol); at that spin no step of main is possible;
\* nothing is stored for the pair and the process has not exited unless a
\* pin failed.
C7_StarvedHangs ==
  (Starved /\ nsamples >= 1) =>
    /\ mpc \in {"pin", "preheat", "for_m", "reset1", "reset2", "r_ts1",
                "r_store", "r_spin", "w_store0", "w_wait"}
    /\ rtt = -1 /\ elapsedSeq = <<>>
    /\ mpc \notin {"pin", "preheat"} => m = 0
    /\ mpc \in {"r_store", "r_spin"} => n = 0
    /\ (Running /\ mpc \in {"r_spin", "w_wait"}) => ~ENABLED MainStep
    /\ Entry(i, j) = 0 /\ Entry(j, i) = 0
    /\ \A k \in 1..Len(measured) : measured[k] # CurPair
    /\ status # "exit0"
    /\ status = "exit1" => pinFailed

C7_Witness ==
  /\ Starved /\ nsamples >= 1 /\ Running
  /\ mpc = "w_wait" /\ seq2 = 0 /\ measured # <<>>

\* C8: while the initiator is inside a timed window no responder is before
\* or inside its warm-up; with warm-up disabled nobody warms up; a warm-up
\* runs once per context and pair.
C8_WarmupOutsideWindow ==
  /\ InTimedWindow =>
       \A t \in Existing : thr[t].pc \notin {"start", "preheat"}
  /\ ~preheat =>
       /\ mpc # "preheat"
       /\ \A t \in DOMAIN thr : thr[t].pc # "preheat"

\* C9: a failed pin ends the process at once with status 1: nothing is
\* printed, and no step of either context follows.
C9_PinFailureFatal ==
  /\ [](pinFailed => (status = "exit1" /\ output = NoOutput))
  /\ [][status = "exit1" => UNCHANGED vars]_vars

C9_Witness ==
  /\ pinFailed /\ status = "exit1"
  /\ measured # <<>> /\ mpc = "r_spin" /\ thr[CurPair].pc = "start"

\* C10: at most one responder exists at a time, it is the responder of the
\* pair whose loop body main is executing, every earlier responder has been
\* joined, and its cell pointers refer to the cells of its own pair.
C10_Sequential ==
  /\ Cardinality(Existing) <= 1
  /\ \A t \in Existing :
       /\ t = CurPair
       /\ thr[t].args.seq = t
       /\ CellsValid(t)
       /\ mpc \notin {"for_i", "for_j", "create", "store_ij", "store_ji",
                      "print", "return"}
  /\ \A t \in DOMAIN thr : t # CurPair => thr[t].pc = "joined"

C10_Witness ==
  /\ Cardinality(DOMAIN thr) = 3
  /\ Existing = {<<1, 2>>}
  /\ thr[<<1, 2>>].pc = "w_cas" /\ thr[<<0, 1>>].pc = "joined"


\* the responder of the pair in execution
HasResp == frame # NoFrame /\ CurPair \in DOMAIN thr
Resp == thr[CurPair]
\* main is inside the sample loop of lines 198-248
InSampleLoop ==
  mpc \in {"for_m", "reset1", "reset2", "r_ts1", "r_store", "r_spin", "r_ts2",
           "w_store0", "w_wait", "w_close", "w_ts1", "w_cas", "w_last",
           "w_ts2"}

\* C11: flag exchange.  From the reset to the end of a sample seq2 <= seq1 <=
\* seq2 + 1 with both in -1..99; the responder is about to store n only when
\* seq1 already holds n of the same sample; the initiator is about to store
\* n only when seq2 holds n - 1; each cell changes only by a reset to -1 or
\* by a store of its value plus one, the initiator's store on seq1 and the
\* responder's on seq2, so each side stores 0..99 in order; the sample ends
\* with seq1 = seq2 = 99.
C11_FlagLockstep ==
  /\ [](~use_write =>
         /\ mpc \in {"r_ts1", "r_store", "r_spin", "r_ts2"} =>
              /\ seq2 <= seq1 /\ seq1 <= seq2 + 1
              /\ seq1 \in (-1)..(NSteps - 1) /\ seq2 \in (-1)..(NSteps - 1)
         /\ mpc = "r_ts1" => (seq1 = -1 /\ seq2 = -1)
         /\ mpc = "r_store" => (seq1 = n - 1 /\ seq2 = n - 1 /\ n < NSteps)
         /\ mpc = "r_spin" => (seq1 = n /\ seq2 \in {n - 1, n})
         /\ mpc = "r_ts2" => (seq1 = 99 /\ seq2 = 99 /\ n = NSteps)
         /\ \A t \in Existing :
              thr[t].pc = "r_store" =>
                /\ mpc = "r_spin" /\ thr[t].m = m /\ thr[t].n = n
                /\ seq1 = thr[t].n /\ seq2 = thr[t].n - 1)
  /\ [][~use_write =>
         /\ seq1' # seq1 =>
              \/ seq1' = -1 /\ mpc \in {"reset1", "for_j"}
              \/ seq1' = seq1 + 1 /\ mpc = "r_store" /\ thr' = thr
         /\ seq2' # seq2 =>
              \/ seq2' = -1 /\ mpc \in {"reset2", "for_j"}
              \/ seq2' = seq2 + 1 /\ thr' # thr /\ mpc' = mpc]_vars

C11_Witness ==
  /\ ~use_write /\ mpc = "r_ts2" /\ m = 1
  /\ seq1 = 99 /\ seq2 = 99 /\ Resp.m = 2 /\ CurPair = <<1, 2>>


\* C12: compare-exchange protocol.  Between resets seq1 changes only by a
\* successful exchange that adds exactly 1; an exchange to an even value is
\* a step of the initiator, one to an odd value a step of the responder, so
\* the sides alternate; the initiator has n successes when seq1 is 2n-2 or
\* 2n-1, the responder n when seq1 is 2n-1 or 2n; the sample ends with seq1
\* = 199 after 100 successes of each side.  A step that fails its exchange
\* leaves seq1 as it is.
C12_CasAlternates ==
  /\ [](use_write =>
         /\ seq1 \in (-1)..(2 * NSteps - 1)
         /\ mpc \in {"w_store0", "w_wait", "w_close", "w_ts1"} => seq1 = -1
         /\ mpc = "w_cas" => (n < NSteps /\ seq1 \in {2 * n - 2, 2 * n - 1}
                              /\ (n = 0 => seq1 = -1))
         /\ mpc = "w_last" => (n = NSteps /\ seq1 \in {198, 199})
         /\ mpc = "w_ts2" => (n = NSteps /\ seq1 = 199)
         /\ \A t \in Existing :
              thr[t].pc = "w_cas" =>
                /\ thr[t].m = m /\ thr[t].n < NSteps
                /\ mpc \in {"w_wait", "w_close", "w_ts1", "w_cas", "w_last"}
                /\ seq1 \in {2 * thr[t].n - 1, 2 * thr[t].n}
                /\ mpc \in {"w_cas", "w_last"} => thr[t].n \in {n - 1, n})
  /\ [][use_write =>
         /\ seq1' # seq1 =>
              \/ seq1' = -1 /\ mpc \in {"reset1", "for_j"}
              \/ /\ seq1' = seq1 + 1
                 /\ IF seq1' % 2 = 0
                      THEN mpc = "w_cas" /\ n' = n + 1 /\ thr' = thr
                      ELSE /\ mpc' = mpc /\ n' = n
                           /\ \E t \in Existing :
                                /\ thr[t].pc = "w_cas"
                                /\ thr'[t].n = thr[t].n + 1
         /\ (seq1' = seq1 /\ mpc = "w_cas") => (mpc' = mpc /\ n' = n)]_vars

C12_Witness ==
  /\ use_write /\ mpc = "w_last" /\ seq1 = 198 /\ m = 1
  /\ Resp.pc = "w_cas" /\ Resp.n = 99


\* C13: compare-exchange protocol.  seq2 only takes the values -1, 0 and 1;
\* when the initiator records ts1 the responder has stored 1 into seq2 in
\* this sample (it is pinned, past its warm-up and at its exchanges of the
\* same sample) and the initiator has stored -1 back; inside the timed
\* window seq2 is -1 and no step changes it; every change of seq1 by an
\* exchange is made inside the timed window.
C13_BarrierUntimed ==
  /\ [](use_write =>
         /\ seq2 \in {-1, 0, 1}
         /\ (HasResp /\ mpc \in {"w_close", "w_ts1", "w_cas"}) =>
              /\ Resp.pc = "w_cas" /\ Resp.m = m
              /\ Resp.aff = {Resp.args.cpu}
         /\ (HasResp /\ mpc \in {"w_last", "w_ts2"}) =>
              /\ Resp.aff = {Resp.args.cpu}
              /\ \/ mpc = "w_last" /\ Resp.pc = "w_cas" /\ Resp.m = m
                 \/ /\ Resp.m = m + 1 /\ seq1 = 199
                    /\ Resp.pc \in {"for_m", "w_wait", "done"}
         /\ mpc = "w_close" => seq2 = 1
         /\ (mpc = "w_ts1" \/ InTimedWindow) => seq2 = -1)
  /\ [][use_write =>
         /\ InTimedWindow => seq2' = seq2
         /\ (seq1' # seq1 /\ seq1' # -1) => (InTimedWindow /\ InTimedWindow')
         /\ seq2' # seq2 =>
              \/ seq2' = -1 /\ mpc \in {"reset2", "for_j", "w_close"}
              \/ seq2' = 0 /\ mpc = "w_store0" /\ seq2 = -1
              \/ seq2' = 1 /\ seq2 = 0 /\ mpc = "w_wait" /\ mpc' = mpc]_vars

C13_Witness ==
  /\ use_write /\ preheat /\ mpc = "w_cas" /\ m = 1 /\ n = 50
  /\ seq2 = -1 /\ seq1 = 99 /\ Resp.pc = "w_cas"


\* C14: reuse of the cells across samples.  The responder's sample index is
\* the initiator's or one ahead; from the end of a sample until the
\* initiator has published the first value of the next one (seq1 = 0 in the
\* flag exchange, seq2 = 0 in the barrier) the responder is in the same
\* sample as the initiator, has done the last write of the sample before,
\* waits at the first step and writes neither cell; after the reset both
\* cells hold -1; a value that ends a spin was written in the same sample.
C14_ReuseRaceFree ==
  /\ []((HasResp /\ InSampleLoop) =>
         /\ Resp.m \in {m, m + 1}
         /\ Resp.m = m + 1 =>
              /\ mpc \in {"r_spin", "r_ts2", "w_last", "w_ts2"}
              /\ n >= NSteps - 1
              /\ seq1 = (IF use_write THEN 199 ELSE 99)
              /\ ~use_write => seq2 = 99
         /\ ( \/ mpc \in {"for_m", "reset1", "reset2", "r_ts1", "w_store0"}
              \/ (mpc = "r_store" /\ n = 0) ) =>
              /\ Resp.m = m
              /\ Resp.pc \in {"start", "preheat", "for_m", "r_spin", "w_wait",
                              "done"}
              /\ Resp.pc = "r_spin" => Resp.n = 0
              /\ Resp.pc = "done" => (mpc = "for_m" /\ m >= nsamples)
         /\ mpc \in {"r_ts1", "w_store0"} => (seq1 = -1 /\ seq2 = -1)
         /\ (~use_write /\ mpc = "r_spin" /\ seq2 = n) =>
              \/ Resp.m = m /\ Resp.pc = "r_spin" /\ Resp.n = n + 1
              \/ Resp.m = m + 1 /\ n = NSteps - 1
         /\ (use_write /\ mpc = "w_wait" /\ seq2 = 1) =>
              (Resp.m = m /\ Resp.pc = "w_cas"))
  /\ [][( /\ HasResp
          /\ \/ mpc \in {"reset1", "reset2", "r_ts1", "w_store0"}
             \/ (mpc = "r_store" /\ n = 0)
          /\ thr' # thr ) => (seq1' = seq1 /\ seq2' = seq2)]_vars

C14_Witness ==
  /\ HasResp /\ mpc = "reset2" /\ m = 1 /\ ~use_write
  /\ seq1 = -1 /\ seq2 = 99
  /\ Resp.pc = "r_spin" /\ Resp.m = 1 /\ Resp.n = 0


\* C15: the matrix is written only by main and only after the join.  While a
\* responder has been created and not joined, both entries of its pair hold
\* the initial 0; the matrix changes only in the stores of lines 252-253,
\* with no responder alive, and only in the two entries of the pair (i, j).
C15_MatrixAfterJoin ==
  /\ [](\A t \in Existing :
          Entry(t[1], t[2]) = 0 /\ Entry(t[2], t[1]) = 0)
  /\ [][data' # data =>
          /\ Existing = {}
          /\ mpc \in {"store_ij", "store_ji"} /\ mpc' # mpc /\ thr' = thr
          /\ \A k \in DOMAIN data :
               data'[k] # data[k] =>
                 k \in {Idx(i, j, ncpus), Idx(j, i, ncpus)}]_vars

C15_Witness ==
  /\ ncpus = 3 /\ Existing = {<<1, 2>>} /\ thr[<<1, 2>>].pc = "done"
  /\ Entry(0, 1) = 1 /\ Entry(0, 2) = 1
  /\ Entry(1, 2) = 0 /\ Entry(2, 1) = 0


\* a context runs on one CPU only
OneCpu(aff) == \E c \in CpuIds : aff = {c}

\* C16 as stated: in no reachable state are a live responder and main
\* confined to the same single CPU.
C16_NeverSameCpu ==
  \A t \in Existing : ~(OneCpu(mainAff) /\ thr[t].aff = mainAff)

\* C16: for the pair (i, j) the responder is handed cpus[i] and, once its
\* pinThread has returned, runs on cpus[i] only; main, once its pinThread of
\* line 184 has returned, runs on cpus[j] only; the two CPUs differ, so the
\* contexts are apart from the moment both have pinned.  Main is never
\* confined to cpus[i], neither at the spawn nor later.  Before its own
\* pinThread the responder has the mask main had at the spawn, which it
\* shares with main until main pins.
C16_PinnedApart ==
  /\ mpc = "create" => mainAff # {cpus[i]}
  /\ HasResp =>
       /\ i < j /\ cpus[i] # cpus[j]
       /\ Resp.args.cpu = cpus[i]
       /\ Resp.pc # "start" => Resp.aff = {cpus[i]}
       /\ mpc # "pin" => mainAff = {cpus[j]}
       /\ mainAff # {cpus[i]}
       /\ (Resp.pc # "start" /\ mpc # "pin") =>
            (OneCpu(Resp.aff) /\ OneCpu(mainAff) /\ Resp.aff # mainAff)
       /\ (Resp.pc = "start" /\ mpc = "pin") => Resp.aff = mainAff

C16_Witness ==
  /\ HasResp /\ i = 0 /\ j = 2 /\ mpc = "r_spin" /\ Resp.pc = "r_spin"
  /\ Resp.aff = {cpus[0]} /\ mainAff = {cpus[2]}


\* C18: with a sample count of 0 or less no context executes a hand-off step
\* or a spin in either protocol: main goes from the pin (and preheat) to the
\* join, the responder from its pin (and preheat) to its return; the cells
\* keep their initial -1, no sample is timed, rtt stays -1, and every matrix
\* entry is 0, the stored rtt / 2 / 100 being 0 and not -1.  Every responder
\* is joined and every pair stored when main returns, and with both contexts
\* scheduled the run ends.
C18_NoSamples ==
  /\ []((nsamples <= 0) =>
         /\ mpc \in {"for_i", "for_j", "create", "pin", "preheat", "for_m",
                     "join", "store_ij", "store_ji", "print", "return"}
         /\ \A t \in DOMAIN thr :
              /\ thr[t].pc \in {"start", "preheat", "for_m", "done", "joined"}
              /\ thr[t].m = 0 /\ thr[t].n = 0
         /\ frame # NoFrame => (seq1 = -1 /\ seq2 = -1)
         /\ thr # <<>> => rtt = -1
         /\ elapsedSeq = <<>> /\ rttHist = <<>>
         /\ PerHop(-1) = 0 /\ PerHopJI(-1) = 0
         /\ \A k \in DOMAIN data : data[k] = 0
         /\ status = "exit0" =>
              /\ Len(measured) = (ncpus * (ncpus - 1)) \div 2
              /\ \A t \in DOMAIN thr : thr[t].pc = "joined"
              /\ \A a, b \in Positions :
                   a < b => \E k \in 1..Len(measured) : measured[k] = <<a, b>>)
  /\ (nsamples <= 0) ~> (status = "exit0" \/ pinFailed)

C18_Witness ==
  /\ nsamples = -1 /\ status = "exit0" /\ ncpus = 3 /\ preheat
  /\ Len(measured) = 3 /\ rtt = -1
  /\ Entry(0, 1) = 0 /\ Entry(2, 1) = 0
  /\ \A t \in {<<0, 1>>, <<0, 2>>, <<1, 2>>} : thr[t].pc = "joined"

====
